---- MODULE Spec2Model ----
(***************************************************************************)
(* Anonymous chat matchmaking engine of the anonchat bot                   *)
(* (src/unnamed/part_000, lines 194-1120): the waiting set, the session    *)
(* registry chat_partners, the compatibility policy and the four message   *)
(* handlers start_search, stop_search, stop_chat and next_chat, together   *)
(* with the callbacks that change a user's profile.                        *)
(*                                                                         *)
(* Spec     : handlers run one at a time, each handler is one action.      *)
(* SpecConc : handlers of different users run on the worker threads of the *)
(*            bot (telebot.TeleBot(TOKEN), line 194) and interleave at     *)
(*            statement granularity.                                       *)
(***************************************************************************)
EXTENDS Integers, Sequences, FiniteSets, TLC

\* ------------------------------------------------------------------ bounds
NumUsers == 3
MaxProfileOps == 3
MaxConcProfileOps == 2
MaxThreads == 2
MaxHandlers == 4
MaxBuyers == 1

Users == 1..NumUsers

\* the users whose invoice is reported as paid
Buyers == 1..MaxBuyers

\* ------------------------------------------------------- program constants
None == 0
NoGender == "None"
Boy == "Boy"
Girl == "Girl"
DEFAULT_SEARCH_GENDER == "Any"

Genders == {Boy, Girl}
SearchGenders == {DEFAULT_SEARCH_GENDER, Boy, Girl}

VARIABLES
    chat_partners,  \* dict user_id -> partner_id (a function on its keys)
    waiting_users,  \* set of user ids
    user_data,      \* user_id -> [gender, premium, search_gender]
    sent,           \* messages sent by the handler that ran last
    raised,         \* TRUE iff the handler that ran last raised an exception
    last,           \* [op, user, partner, subscribed]: the handler that ran last
    profile_ops,    \* number of gender and search_gender callbacks so far
    pc,             \* SpecConc: position of each user's handler
    local,          \* SpecConc: local variables of each user's handler
    runs,           \* SpecConc: handlers started / searches entered per user
    arrival,        \* history: the members of waiting_users, one entry per
                    \* waiting_users.add call, in the order of the calls
    returned,       \* SpecPolicy, SpecScan: the value the last call returned
    queued_preference
                    \* history: for each member of waiting_users the
                    \* preference _user_preference gave when it was added

vars == <<chat_partners, waiting_users, user_data, sent, raised, last,
          profile_ops, pc, local, runs, arrival, returned, queued_preference>>

queue == <<waiting_users, arrival, queued_preference>>
engine == <<chat_partners, waiting_users, arrival, queued_preference>>
threads == <<pc, local, runs>>

\* ------------------------------------------------------------------ helpers
Msg(u, t) == [to |-> u, text |-> t]

Keys == DOMAIN chat_partners

EmptyDict == [x \in {} |-> None]

\* del d[k] for a key k of d
DictDel(d, k) == [x \in (DOMAIN d) \ {k} |-> d[x]]

\* d[k] = v
DictSet(d, k, v) == [x \in (DOMAIN d) \cup {k} |-> IF x = k THEN v ELSE d[x]]

\* every order in which list(waiting_users) can enumerate the set S
Orders(S) ==
    {s \in [1..Cardinality(S) -> S] : \A i, j \in 1..Cardinality(S) : s[i] = s[j] => i = j}

\* the members of the sequence s
Range(s) == {s[i] : i \in 1..Len(s)}

\* the history `arrival` after waiting_users.remove(u)
Without(s, u) == SelectSeq(s, LAMBDA x : x # u)

DefaultProfile ==
    [gender |-> NoGender, premium |-> FALSE, search_gender |-> DEFAULT_SEARCH_GENDER]

\* the record kept in `last` for a handler that passed its subscription gate
\* (or has none)
Ran(op, user_id, partner_id) ==
    [op |-> op, user |-> user_id, partner |-> partner_id, subscribed |-> TRUE]

\* ------------------------------------------------------ compatibility policy
\* _user_preference returning the stored search_gender of every user
_user_preference_stored(user_id) == user_data[user_id].search_gender

_user_preference(user_id) ==
    IF user_data[user_id].premium
    THEN user_data[user_id].search_gender
    ELSE DEFAULT_SEARCH_GENDER

_user_gender(user_id) == user_data[user_id].gender

\* the entry of queued_preference for a user who is not in waiting_users
NotQueued == "-"

\* the history queued_preference after waiting_users.add(u)
Queued(q, u) == [q EXCEPT ![u] = _user_preference(u)]

\* the history queued_preference after waiting_users.remove(u)
Unqueued(q, u) == [q EXCEPT ![u] = NotQueued]

\* can_users_chat without the test of lines 756-757 for an unset gender
can_users_chat_no_gender_check(user_a, user_b) ==
    IF _user_preference(user_a) # DEFAULT_SEARCH_GENDER
       /\ _user_gender(user_b) # _user_preference(user_a)
    THEN FALSE
    ELSE IF _user_preference(user_b) # DEFAULT_SEARCH_GENDER
            /\ _user_gender(user_a) # _user_preference(user_b)
    THEN FALSE
    ELSE TRUE

\* can_users_chat testing only the preference of user_a (lines 764-765 left out)
can_users_chat_one_sided(user_a, user_b) ==
    IF _user_gender(user_a) = NoGender \/ _user_gender(user_b) = NoGender
    THEN FALSE
    ELSE IF _user_preference(user_a) # DEFAULT_SEARCH_GENDER
            /\ _user_gender(user_b) # _user_preference(user_a)
    THEN FALSE
    ELSE TRUE

can_users_chat(user_a, user_b) ==
    IF _user_gender(user_a) = NoGender \/ _user_gender(user_b) = NoGender
    THEN FALSE
    ELSE IF _user_preference(user_a) # DEFAULT_SEARCH_GENDER
            /\ _user_gender(user_b) # _user_preference(user_a)
    THEN FALSE
    ELSE IF _user_preference(user_b) # DEFAULT_SEARCH_GENDER
            /\ _user_gender(user_a) # _user_preference(user_b)
    THEN FALSE
    ELSE TRUE

\* the loop of find_partner_for_user over the snapshot `order`:
\* the first member that is not the requester and is compatible, or None
RECURSIVE ScanQueue_no_self_skip(_, _)
\* the loop without the `continue` of lines 773-774
ScanQueue_no_self_skip(user_id, order) ==
    IF order = <<>> THEN None
    ELSE IF can_users_chat(user_id, Head(order)) THEN Head(order)
    ELSE ScanQueue_no_self_skip(user_id, Tail(order))

\* can_users_chat reading for the candidate user_b the preference that was
\* in force when user_b was added to waiting_users
can_users_chat_as_queued(user_a, user_b) ==
    LET preference_b == IF queued_preference[user_b] = NotQueued
                        THEN _user_preference(user_b)
                        ELSE queued_preference[user_b]
    IN  IF _user_gender(user_a) = NoGender \/ _user_gender(user_b) = NoGender
        THEN FALSE
        ELSE IF _user_preference(user_a) # DEFAULT_SEARCH_GENDER
                /\ _user_gender(user_b) # _user_preference(user_a)
        THEN FALSE
        ELSE IF preference_b # DEFAULT_SEARCH_GENDER
                /\ _user_gender(user_a) # preference_b
        THEN FALSE
        ELSE TRUE

RECURSIVE ScanQueue_queued_preference(_, _)
\* the loop deciding on the preferences the candidates had when they were
\* queued
ScanQueue_queued_preference(user_id, order) ==
    IF order = <<>> THEN None
    ELSE IF Head(order) = user_id
    THEN ScanQueue_queued_preference(user_id, Tail(order))
    ELSE IF can_users_chat_as_queued(user_id, Head(order)) THEN Head(order)
    ELSE ScanQueue_queued_preference(user_id, Tail(order))

RECURSIVE ScanQueue(_, _)
ScanQueue(user_id, order) ==
    IF order = <<>> THEN None
    ELSE IF Head(order) = user_id THEN ScanQueue(user_id, Tail(order))
    ELSE IF can_users_chat(user_id, Head(order)) THEN Head(order)
    ELSE ScanQueue(user_id, Tail(order))

\* find_partner_for_user returning the first other member, compatible or not
find_partner_for_user_any_member(user_id, order) ==
    IF \E i \in 1..Len(order) : order[i] # user_id
    THEN order[CHOOSE i \in 1..Len(order) :
                    /\ order[i] # user_id
                    /\ \A j \in 1..(i - 1) : order[j] = user_id]
    ELSE None

\* the value find_partner_for_user returns when the set enumerates as `order`
find_partner_for_user(user_id, order) ==
    IF waiting_users = {} THEN None ELSE ScanQueue(user_id, order)

\* connect_users with the insertion of line 794 left out
connect_users_one_way(d, user_id, partner_id) == DictSet(d, user_id, partner_id)

\* connect_users writing the requester's own id as its partner in line 793
connect_users_self_entry(d, user_id, partner_id) ==
    DictSet(DictSet(d, user_id, user_id), partner_id, user_id)

\* the two insertions of connect_users
connect_users(d, user_id, partner_id) ==
    DictSet(DictSet(d, user_id, partner_id), partner_id, user_id)

\* send_chat_controls called for the requester only (line 796 left out)
ChatControls_requester_only(user_id, partner_id) ==
    <<Msg(user_id, "partner_found")>>

ChatControls(user_id, partner_id) ==
    <<Msg(user_id, "partner_found"), Msg(partner_id, "partner_found")>>

\* local variables of a handler that is not running
IdleLocal == [op |-> "none", partner |-> None, scan |-> <<>>]

\* handlers started and begin_search_for_user calls entered, per user
NoRuns == [handlers |-> 0, searches |-> 0]

\* the number the admin statistics show as active dialogs
active_pairs == Cardinality(Keys) \div 2

\* ---------------------------------------------------------------------- Init
Init ==
    /\ chat_partners = EmptyDict
    /\ waiting_users = {}
    /\ user_data = [u \in Users |-> DefaultProfile]
    /\ sent = <<>>
    /\ raised = FALSE
    /\ last = [op |-> "none", user |-> None, partner |-> None, subscribed |-> TRUE]
    /\ profile_ops = 0
    /\ pc = [u \in Users |-> "idle"]
    /\ local = [u \in Users |-> IdleLocal]
    /\ runs = [u \in Users |-> NoRuns]
    /\ arrival = <<>>
    /\ queued_preference = [u \in Users |-> NotQueued]
    /\ returned = None

\* ------------------------------------------------- handlers, one at a time
\* begin_search_for_user without the membership test of lines 801-803
begin_search_for_user_no_queue_check(user_id, op, pre, cp) ==
    \E order \in Orders(waiting_users) :
      LET partner_id == find_partner_for_user(user_id, order)
          started == pre \o <<Msg(user_id, "search_started"),
                              Msg(user_id, "stop_search_button")>>
      IN  /\ last' = Ran(op, user_id, partner_id)
          /\ IF partner_id # None
             THEN /\ waiting_users' = waiting_users \ {partner_id}
                  /\ arrival' = Without(arrival, partner_id)
                  /\ queued_preference' = Unqueued(queued_preference, partner_id)
                  /\ chat_partners' = connect_users(cp, user_id, partner_id)
                  /\ sent' = started \o ChatControls(user_id, partner_id)
             ELSE /\ waiting_users' = waiting_users \cup {user_id}
                  /\ arrival' = Append(arrival, user_id)
                  /\ queued_preference' = Queued(queued_preference, user_id)
                  /\ chat_partners' = cp
                  /\ sent' = started \o <<Msg(user_id, "added_to_queue")>>

\* begin_search_for_user calling waiting_users.add again for a user who is
\* already queued
begin_search_for_user_readd(user_id, op, pre, cp) ==
    IF user_id \in waiting_users
    THEN /\ sent' = pre \o <<Msg(user_id, "already_in_queue")>>
         /\ last' = Ran(op, user_id, None)
         /\ chat_partners' = cp
         /\ waiting_users' = waiting_users \cup {user_id}
         /\ arrival' = Append(arrival, user_id)
         /\ queued_preference' = Queued(queued_preference, user_id)
    ELSE \E order \in Orders(waiting_users) :
           LET partner_id == find_partner_for_user(user_id, order)
               started == pre \o <<Msg(user_id, "search_started"),
                                   Msg(user_id, "stop_search_button")>>
           IN  /\ last' = Ran(op, user_id, partner_id)
               /\ IF partner_id # None
                  THEN /\ waiting_users' = waiting_users \ {partner_id}
                       /\ arrival' = Without(arrival, partner_id)
                       /\ queued_preference' = Unqueued(queued_preference, partner_id)
                       /\ chat_partners' = connect_users(cp, user_id, partner_id)
                       /\ sent' = started \o ChatControls(user_id, partner_id)
                  ELSE /\ waiting_users' = waiting_users \cup {user_id}
                       /\ arrival' = Append(arrival, user_id)
                       /\ queued_preference' = Queued(queued_preference, user_id)
                       /\ chat_partners' = cp
                       /\ sent' = started \o <<Msg(user_id, "added_to_queue")>>

\* begin_search_for_user adding the user to the queue without calling
\* find_partner_for_user (lines 808-811 left out)
begin_search_for_user_no_scan(user_id, op, pre, cp) ==
    IF user_id \in waiting_users
    THEN /\ sent' = pre \o <<Msg(user_id, "already_in_queue")>>
         /\ last' = Ran(op, user_id, None)
         /\ chat_partners' = cp
         /\ UNCHANGED queue
    ELSE /\ last' = Ran(op, user_id, None)
         /\ waiting_users' = waiting_users \cup {user_id}
         /\ arrival' = Append(arrival, user_id)
         /\ queued_preference' = Queued(queued_preference, user_id)
         /\ chat_partners' = cp
         /\ sent' = pre \o <<Msg(user_id, "search_started"),
                             Msg(user_id, "stop_search_button"),
                             Msg(user_id, "added_to_queue")>>

\* begin_search_for_user(user_id), entered from handler `op` that has
\* already sent the messages `pre` and works on the registry `cp`
begin_search_for_user(user_id, op, pre, cp) ==
    IF user_id \in waiting_users
    THEN /\ sent' = pre \o <<Msg(user_id, "already_in_queue")>>
         /\ last' = Ran(op, user_id, None)
         /\ chat_partners' = cp
         /\ UNCHANGED queue
    ELSE \E order \in Orders(waiting_users) :
           LET partner_id == find_partner_for_user(user_id, order)
               started == pre \o <<Msg(user_id, "search_started"),
                                   Msg(user_id, "stop_search_button")>>
           IN  /\ last' = Ran(op, user_id, partner_id)
               /\ IF partner_id # None
                  THEN /\ waiting_users' = waiting_users \ {partner_id}
                       /\ arrival' = Without(arrival, partner_id)
                       /\ queued_preference' = Unqueued(queued_preference, partner_id)
                       /\ chat_partners' = connect_users(cp, user_id, partner_id)
                       /\ sent' = started \o ChatControls(user_id, partner_id)
                  ELSE /\ waiting_users' = waiting_users \cup {user_id}
                       /\ arrival' = Append(arrival, user_id)
                       /\ queued_preference' = Queued(queued_preference, user_id)
                       /\ chat_partners' = cp
                       /\ sent' = started \o <<Msg(user_id, "added_to_queue")>>

\* start_search without the gender check of lines 822-824
start_search_no_gender_check(user_id, subscribed) ==
    /\ raised' = FALSE
    /\ UNCHANGED <<user_data, profile_ops, threads, returned>>
    /\ IF ~subscribed
       THEN /\ sent' = <<Msg(user_id, "subscribe")>>
            /\ last' = [op |-> "start_search", user |-> user_id, partner |-> None,
                        subscribed |-> FALSE]
            /\ UNCHANGED engine
       ELSE begin_search_for_user(user_id, "start_search", <<>>, chat_partners)

\* start_search returning on an unset gender without calling ask_gender
start_search_no_prompt(user_id, subscribed) ==
    /\ raised' = FALSE
    /\ UNCHANGED <<user_data, profile_ops, threads, returned>>
    /\ IF ~subscribed
       THEN /\ sent' = <<Msg(user_id, "subscribe")>>
            /\ last' = [op |-> "start_search", user |-> user_id, partner |-> None,
                        subscribed |-> FALSE]
            /\ UNCHANGED engine
       ELSE IF user_data[user_id].gender = NoGender
       THEN /\ sent' = <<>>
            /\ last' = Ran("start_search", user_id, None)
            /\ UNCHANGED engine
       ELSE begin_search_for_user(user_id, "start_search", <<>>, chat_partners)

\* start_search: the user sends the "start search" button text;
\* subscribed is the result of is_user_subscribed(user_id)
start_search(user_id, subscribed) ==
    /\ raised' = FALSE
    /\ UNCHANGED <<user_data, profile_ops, threads, returned>>
    /\ IF ~subscribed
       THEN /\ sent' = <<Msg(user_id, "subscribe")>>
            /\ last' = [op |-> "start_search", user |-> user_id, partner |-> None,
                        subscribed |-> FALSE]
            /\ UNCHANGED engine
       ELSE IF user_data[user_id].gender = NoGender
       THEN /\ sent' = <<Msg(user_id, "ask_gender")>>
            /\ last' = Ran("start_search", user_id, None)
            /\ UNCHANGED engine
       ELSE begin_search_for_user(user_id, "start_search", <<>>, chat_partners)

\* stop_search without its send_message and show_main_buttons calls
stop_search_silent(user_id) ==
    /\ raised' = FALSE
    /\ last' = Ran("stop_search", user_id, None)
    /\ UNCHANGED <<chat_partners, user_data, profile_ops, threads, returned>>
    /\ sent' = <<>>
    /\ IF user_id \in waiting_users
       THEN /\ waiting_users' = waiting_users \ {user_id}
            /\ arrival' = Without(arrival, user_id)
            /\ queued_preference' = Unqueued(queued_preference, user_id)
       ELSE UNCHANGED queue

\* stop_search: the user sends the "stop search" button text
stop_search(user_id) ==
    /\ raised' = FALSE
    /\ last' = Ran("stop_search", user_id, None)
    /\ UNCHANGED <<chat_partners, user_data, profile_ops, threads, returned>>
    /\ IF user_id \in waiting_users
       THEN /\ waiting_users' = waiting_users \ {user_id}
            /\ arrival' = Without(arrival, user_id)
            /\ queued_preference' = Unqueued(queued_preference, user_id)
            /\ sent' = <<Msg(user_id, "search_stopped"), Msg(user_id, "main_buttons")>>
       ELSE /\ UNCHANGED queue
            /\ sent' = <<Msg(user_id, "not_searching"), Msg(user_id, "main_buttons")>>

\* stop_chat deleting only the caller's own entry (line 863 left out)
stop_chat_one_sided(user_id) ==
    /\ last' = Ran("stop_chat", user_id, None)
    /\ raised' = FALSE
    /\ UNCHANGED <<queue, user_data, profile_ops, threads, returned>>
    /\ IF user_id \in Keys
       THEN /\ chat_partners' = DictDel(chat_partners, user_id)
            /\ sent' = <<Msg(user_id, "you_disconnected"),
                         Msg(chat_partners[user_id], "partner_disconnected"),
                         Msg(user_id, "main_buttons"),
                         Msg(chat_partners[user_id], "main_buttons")>>
       ELSE /\ UNCHANGED chat_partners
            /\ sent' = <<Msg(user_id, "no_dialog"), Msg(user_id, "main_buttons")>>

\* stop_chat emptying the whole registry (chat_partners.clear() in place of
\* the two del statements of lines 862-863)
stop_chat_clears_registry(user_id) ==
    /\ last' = Ran("stop_chat", user_id, None)
    /\ raised' = FALSE
    /\ UNCHANGED <<queue, user_data, profile_ops, threads, returned>>
    /\ IF user_id \in Keys
       THEN /\ chat_partners' = EmptyDict
            /\ sent' = <<Msg(user_id, "you_disconnected"),
                         Msg(chat_partners[user_id], "partner_disconnected"),
                         Msg(user_id, "main_buttons"),
                         Msg(chat_partners[user_id], "main_buttons")>>
       ELSE /\ UNCHANGED chat_partners
            /\ sent' = <<Msg(user_id, "no_dialog"), Msg(user_id, "main_buttons")>>

\* stop_chat: the user sends /stop
stop_chat(user_id) ==
    /\ last' = Ran("stop_chat", user_id, None)
    /\ UNCHANGED <<queue, user_data, profile_ops, threads, returned>>
    /\ IF user_id \in Keys
       THEN LET partner_id == chat_partners[user_id]
                told == <<Msg(user_id, "you_disconnected"),
                          Msg(partner_id, "partner_disconnected")>>
                d1 == DictDel(chat_partners, user_id)
            IN  IF partner_id \in DOMAIN d1
                THEN /\ chat_partners' = DictDel(d1, partner_id)
                     /\ sent' = told \o <<Msg(user_id, "main_buttons"),
                                          Msg(partner_id, "main_buttons")>>
                     /\ raised' = FALSE
                ELSE \* del chat_partners[partner_id] raises KeyError
                     /\ chat_partners' = d1
                     /\ sent' = told
                     /\ raised' = TRUE
       ELSE /\ UNCHANGED chat_partners
            /\ sent' = <<Msg(user_id, "no_dialog"), Msg(user_id, "main_buttons")>>
            /\ raised' = FALSE

\* next_chat going on to the search for a user who has no entry (the return
\* of line 876 left out)
next_chat_searches_when_unpaired(user_id) ==
    /\ UNCHANGED <<user_data, profile_ops, threads, returned>>
    /\ IF user_id \notin Keys
       THEN /\ raised' = FALSE
            /\ IF user_data[user_id].gender = NoGender
               THEN /\ sent' = <<Msg(user_id, "no_dialog"), Msg(user_id, "ask_gender")>>
                    /\ last' = Ran("next_chat", user_id, None)
                    /\ UNCHANGED engine
               ELSE begin_search_for_user(user_id, "next_chat",
                                          <<Msg(user_id, "no_dialog")>>, chat_partners)
       ELSE LET partner_id == chat_partners[user_id]
                told == <<Msg(user_id, "searching_new"),
                          Msg(partner_id, "partner_next")>>
                d1 == DictDel(chat_partners, user_id)
            IN  IF partner_id \notin DOMAIN d1
                THEN /\ chat_partners' = d1
                     /\ sent' = told
                     /\ last' = Ran("next_chat", user_id, None)
                     /\ raised' = TRUE
                     /\ UNCHANGED queue
                ELSE LET d2 == DictDel(d1, partner_id)
                         pre == told \o <<Msg(partner_id, "main_buttons")>>
                     IN  /\ raised' = FALSE
                         /\ IF user_data[user_id].gender = NoGender
                            THEN /\ chat_partners' = d2
                                 /\ sent' = pre \o <<Msg(user_id, "ask_gender")>>
                                 /\ last' = Ran("next_chat", user_id, None)
                                 /\ UNCHANGED queue
                            ELSE begin_search_for_user(user_id, "next_chat", pre, d2)

\* next_chat: the user sends /next
next_chat(user_id) ==
    /\ UNCHANGED <<user_data, profile_ops, threads, returned>>
    /\ IF user_id \notin Keys
       THEN /\ sent' = <<Msg(user_id, "no_dialog")>>
            /\ last' = Ran("next_chat", user_id, None)
            /\ raised' = FALSE
            /\ UNCHANGED engine
       ELSE LET partner_id == chat_partners[user_id]
                told == <<Msg(user_id, "searching_new"),
                          Msg(partner_id, "partner_next")>>
                d1 == DictDel(chat_partners, user_id)
            IN  IF partner_id \notin DOMAIN d1
                THEN \* del chat_partners[partner_id] raises KeyError
                     /\ chat_partners' = d1
                     /\ sent' = told
                     /\ last' = Ran("next_chat", user_id, None)
                     /\ raised' = TRUE
                     /\ UNCHANGED queue
                ELSE LET d2 == DictDel(d1, partner_id)
                         pre == told \o <<Msg(partner_id, "main_buttons")>>
                     IN  /\ raised' = FALSE
                         /\ IF user_data[user_id].gender = NoGender
                            THEN /\ chat_partners' = d2
                                 /\ sent' = pre \o <<Msg(user_id, "ask_gender")>>
                                 /\ last' = Ran("next_chat", user_id, None)
                                 /\ UNCHANGED queue
                            ELSE begin_search_for_user(user_id, "next_chat", pre, d2)

\* --------------------------------------------------------- profile callbacks
update_user_data(user_id, field, value) ==
    [user_data EXCEPT ![user_id] = [user_data[user_id] EXCEPT ![field] = value]]

\* callback gender_boy / gender_girl
gender_callback(user_id, gender) ==
    /\ profile_ops < MaxProfileOps
    /\ profile_ops' = profile_ops + 1
    /\ user_data' = update_user_data(user_id, "gender", gender)
    /\ sent' = <<Msg(user_id, "gender_saved"), Msg(user_id, "main_buttons")>>
    /\ last' = Ran("gender_callback", user_id, None)
    /\ raised' = FALSE
    /\ UNCHANGED <<engine, threads, returned>>

\* callback check_payment with the invoice reported as paid
check_payment_status(user_id) ==
    /\ user_id \in Buyers
    /\ user_data' = update_user_data(user_id, "premium", TRUE)
    /\ sent' = <<Msg(user_id, "premium_activated"), Msg(user_id, "premium_settings")>>
    /\ last' = Ran("check_payment_status", user_id, None)
    /\ raised' = FALSE
    /\ UNCHANGED <<engine, profile_ops, threads, returned>>

\* the callback data of the three search-preference buttons
SearchGenderData == {"search_gender_any", "search_gender_male", "search_gender_female"}

\* the dict `mapping` of lines 443-447
mapping(data) ==
    CASE data = "search_gender_any" -> DEFAULT_SEARCH_GENDER
      [] data = "search_gender_male" -> Boy
      [] data = "search_gender_female" -> Girl

\* callback search_gender_any / search_gender_male / search_gender_female,
\* storing the requested value for everyone (the premium test left out)
search_gender_callback_ungated(user_id, data) ==
    /\ profile_ops < MaxProfileOps
    /\ profile_ops' = profile_ops + 1
    /\ last' = Ran(data, user_id, None)
    /\ raised' = FALSE
    /\ UNCHANGED <<engine, threads, returned>>
    /\ user_data' = update_user_data(user_id, "search_gender", mapping(data))
    /\ sent' = <<Msg(user_id, "premium_settings")>>

\* callback search_gender_any / search_gender_male / search_gender_female
search_gender_callback(user_id, data) ==
    /\ profile_ops < MaxProfileOps
    /\ profile_ops' = profile_ops + 1
    /\ last' = Ran(data, user_id, None)
    /\ raised' = FALSE
    /\ UNCHANGED <<engine, threads, returned>>
    /\ IF ~user_data[user_id].premium
       THEN /\ UNCHANGED user_data
            /\ sent' = <<>>
       ELSE /\ user_data' = update_user_data(user_id, "search_gender", mapping(data))
            /\ sent' = <<Msg(user_id, "premium_settings")>>

\* forward_message: the user sends a message that is not a control command;
\* subscribed is the result of is_user_subscribed(user_id)
forward_message(user_id, subscribed) ==
    /\ raised' = FALSE
    /\ UNCHANGED <<engine, user_data, profile_ops, threads, returned>>
    /\ IF ~subscribed
       THEN /\ sent' = <<Msg(user_id, "subscribe")>>
            /\ last' = [op |-> "forward_message", user |-> user_id,
                        partner |-> None, subscribed |-> FALSE]
       ELSE /\ last' = Ran("forward_message", user_id, None)
            /\ IF user_id \in Keys
               THEN sent' = <<Msg(chat_partners[user_id], "copy")>>
               ELSE sent' = <<Msg(user_id, "no_partner")>>

\* /start clearing the user's search (no such statement is in lines 1094-1109)
start_resets_search(user_id, subscribed) ==
    /\ raised' = FALSE
    /\ UNCHANGED <<chat_partners, user_data, profile_ops, threads, returned>>
    /\ waiting_users' = waiting_users \ {user_id}
    /\ arrival' = Without(arrival, user_id)
    /\ queued_preference' = Unqueued(queued_preference, user_id)
    /\ sent' = <<Msg(user_id, "welcome"), Msg(user_id, "main_buttons")>>
    /\ last' = Ran("start", user_id, None)

\* start: the user sends /start
start(user_id, subscribed) ==
    /\ raised' = FALSE
    /\ UNCHANGED <<engine, user_data, profile_ops, threads, returned>>
    /\ IF ~subscribed
       THEN /\ sent' = <<Msg(user_id, "subscribe")>>
            /\ last' = [op |-> "start", user |-> user_id,
                        partner |-> None, subscribed |-> FALSE]
       ELSE /\ last' = Ran("start", user_id, None)
            /\ sent' = <<Msg(user_id, "welcome")>>
                       \o (IF user_data[user_id].gender = NoGender
                           THEN <<Msg(user_id, "ask_gender")>> ELSE <<>>)
                       \o <<Msg(user_id, "main_buttons")>>

\* the row of table users that holds the profile p (update_user_data)
db_row(p) ==
    [gender |-> p.gender,
     premium |-> IF p.premium THEN 1 ELSE 0,
     search_gender |-> p.search_gender]

\* the profile load_user_data builds from a row
load_row(row) ==
    [gender |-> row.gender,
     premium |-> row.premium # 0,
     search_gender |-> IF row.search_gender \in {"", NoGender}
                       THEN DEFAULT_SEARCH_GENDER
                       ELSE row.search_gender]

\* a restart that keeps the queue
restart_keeps_queue ==
    /\ chat_partners' = EmptyDict
    /\ UNCHANGED queue
    /\ user_data' = [u \in Users |-> load_row(db_row(user_data[u]))]
    /\ sent' = <<>>
    /\ raised' = FALSE
    /\ last' = Ran("restart", None, None)
    /\ UNCHANGED <<profile_ops, threads, returned>>

\* the process is restarted: lines 197-198 run again, then load_user_data()
restart ==
    /\ chat_partners' = EmptyDict
    /\ waiting_users' = {}
    /\ arrival' = <<>>
    /\ queued_preference' = [u \in Users |-> NotQueued]
    /\ user_data' = [u \in Users |-> load_row(db_row(user_data[u]))]
    /\ sent' = <<>>
    /\ raised' = FALSE
    /\ last' = Ran("restart", None, None)
    /\ UNCHANGED <<profile_ops, threads, returned>>

Next ==
    \/ \E u \in Users, s \in BOOLEAN : start_search(u, s)
    \/ \E u \in Users : stop_search(u)
    \/ \E u \in Users : stop_chat(u)
    \/ \E u \in Users : next_chat(u)
    \/ \E u \in Users, g \in Genders : gender_callback(u, g)
    \/ \E u \in Users : check_payment_status(u)
    \/ \E u \in Users, data \in SearchGenderData : search_gender_callback(u, data)
    \/ \E u \in Users, s \in BOOLEAN : forward_message(u, s)
    \/ \E u \in Users, s \in BOOLEAN : start(u, s)
    \/ restart

Spec == Init /\ [][Next]_vars

\* ------------------------------------- handlers, interleaved by statement
\* Each action below is one statement (or one run of statements that touch
\* no shared state) of a handler running for user u on a worker thread.
\* In these steps sent, raised and last describe the step just taken.

Active == {u \in Users : pc[u] # "idle"}

\* a worker thread is free to take a new message of user u
RECURSIVE HandlersStarted(_)
HandlersStarted(S) ==
    IF S = {} THEN 0
    ELSE LET u == CHOOSE x \in S : TRUE
         IN  runs[u].handlers + HandlersStarted(S \ {u})

CanStart(u) ==
    /\ pc[u] = "idle"
    /\ Cardinality(Active) < MaxThreads
    /\ HandlersStarted(Users) < MaxHandlers

Started(u) == [runs EXCEPT ![u].handlers = @ + 1]

Goto(u, label, loc) ==
    /\ pc' = [pc EXCEPT ![u] = label]
    /\ local' = [local EXCEPT ![u] = loc]

Return(u) == Goto(u, "idle", IdleLocal)

\* the step of u sends msgs, raises or not, and leaves the profiles alone
Step(u, op, msgs, exc) ==
    /\ sent' = msgs
    /\ raised' = exc
    /\ last' = Ran(op, u, local'[u].partner)
    /\ UNCHANGED <<user_data, profile_ops, returned>>

\* start_search, lines 816-824: subscription gate and gender check
T_start_search(u, subscribed) ==
    /\ CanStart(u)
    /\ UNCHANGED engine
    /\ IF ~subscribed
       THEN /\ Return(u)
            /\ runs' = Started(u)
            /\ sent' = <<Msg(u, "subscribe")>>
            /\ raised' = FALSE
            /\ last' = [op |-> "start_search", user |-> u, partner |-> None,
                        subscribed |-> FALSE]
            /\ UNCHANGED <<user_data, profile_ops, returned>>
       ELSE IF user_data[u].gender = NoGender
       THEN /\ Return(u)
            /\ runs' = Started(u)
            /\ Step(u, "start_search", <<Msg(u, "ask_gender")>>, FALSE)
       ELSE /\ Goto(u, "bs_check", [IdleLocal EXCEPT !.op = "start_search"])
            /\ runs' = Started(u)
            /\ Step(u, "start_search", <<>>, FALSE)

\* begin_search_for_user, lines 800-806
T_bs_check(u) ==
    /\ pc[u] = "bs_check"
    /\ UNCHANGED engine
    /\ runs' = [runs EXCEPT ![u].searches = @ + 1]
    /\ IF u \in waiting_users
       THEN /\ Return(u)
            /\ Step(u, local[u].op, <<Msg(u, "already_in_queue")>>, FALSE)
       ELSE /\ Goto(u, "fp_snapshot", local[u])
            /\ Step(u, local[u].op, <<Msg(u, "search_started"),
                                      Msg(u, "stop_search_button")>>, FALSE)

\* find_partner_for_user, lines 770-772: emptiness test and list(waiting_users)
T_fp_snapshot(u) ==
    /\ pc[u] = "fp_snapshot"
    /\ UNCHANGED <<engine, runs>>
    /\ IF waiting_users = {}
       THEN Goto(u, "bs_add", local[u])
       ELSE \E order \in Orders(waiting_users) :
                Goto(u, "fp_loop", [local[u] EXCEPT !.scan = order])
    /\ Step(u, local[u].op, <<>>, FALSE)

\* find_partner_for_user, lines 772-775: one iteration of the loop
T_fp_loop(u) ==
    /\ pc[u] = "fp_loop"
    /\ UNCHANGED <<engine, runs>>
    /\ IF local[u].scan = <<>>
       THEN Goto(u, "bs_add", local[u])
       ELSE LET partner_id == Head(local[u].scan)
                rest == Tail(local[u].scan)
            IN  IF partner_id # u /\ can_users_chat(u, partner_id)
                THEN Goto(u, "fp_remove",
                          [local[u] EXCEPT !.partner = partner_id, !.scan = rest])
                ELSE Goto(u, "fp_loop", [local[u] EXCEPT !.scan = rest])
    /\ Step(u, local[u].op, <<>>, FALSE)

\* find_partner_for_user, lines 776-777: waiting_users.remove(partner_id)
T_fp_remove(u) ==
    /\ pc[u] = "fp_remove"
    /\ UNCHANGED <<chat_partners, runs>>
    /\ IF local[u].partner \in waiting_users
       THEN /\ waiting_users' = waiting_users \ {local[u].partner}
            /\ arrival' = Without(arrival, local[u].partner)
            /\ queued_preference' = Unqueued(queued_preference, local[u].partner)
            /\ Goto(u, "cu_1", local[u])
            /\ Step(u, local[u].op, <<>>, FALSE)
       ELSE \* set.remove raises KeyError
            /\ UNCHANGED queue
            /\ Return(u)
            /\ Step(u, local[u].op, <<>>, TRUE)

\* connect_users, line 793
T_cu_1(u) ==
    /\ pc[u] = "cu_1"
    /\ chat_partners' = DictSet(chat_partners, u, local[u].partner)
    /\ UNCHANGED <<queue, runs>>
    /\ Goto(u, "cu_2", local[u])
    /\ Step(u, local[u].op, <<>>, FALSE)

\* connect_users, lines 794-796
T_cu_2(u) ==
    /\ pc[u] = "cu_2"
    /\ chat_partners' = DictSet(chat_partners, local[u].partner, u)
    /\ UNCHANGED <<queue, runs>>
    /\ Return(u)
    /\ sent' = ChatControls(u, local[u].partner)
    /\ raised' = FALSE
    /\ last' = Ran(local[u].op, u, local[u].partner)
    /\ UNCHANGED <<user_data, profile_ops, returned>>

\* begin_search_for_user, lines 812-813
T_bs_add(u) ==
    /\ pc[u] = "bs_add"
    /\ waiting_users' = waiting_users \cup {u}
    /\ arrival' = Append(arrival, u)
    /\ queued_preference' = Queued(queued_preference, u)
    /\ UNCHANGED <<chat_partners, runs>>
    /\ Return(u)
    /\ Step(u, local[u].op, <<Msg(u, "added_to_queue")>>, FALSE)

\* stop_search, line 832
T_stop_search(u) ==
    /\ CanStart(u)
    /\ runs' = Started(u)
    /\ UNCHANGED engine
    /\ IF u \in waiting_users
       THEN /\ Goto(u, "sq_remove", [IdleLocal EXCEPT !.op = "stop_search"])
            /\ Step(u, "stop_search", <<>>, FALSE)
       ELSE /\ Return(u)
            /\ Step(u, "stop_search", <<Msg(u, "not_searching"),
                                        Msg(u, "main_buttons")>>, FALSE)

\* stop_search, lines 833-837
T_sq_remove(u) ==
    /\ pc[u] = "sq_remove"
    /\ UNCHANGED <<chat_partners, runs>>
    /\ Return(u)
    /\ IF u \in waiting_users
       THEN /\ waiting_users' = waiting_users \ {u}
            /\ arrival' = Without(arrival, u)
            /\ queued_preference' = Unqueued(queued_preference, u)
            /\ Step(u, "stop_search", <<Msg(u, "search_stopped"),
                                        Msg(u, "main_buttons")>>, FALSE)
       ELSE \* set.remove raises KeyError
            /\ UNCHANGED queue
            /\ Step(u, "stop_search", <<>>, TRUE)

\* stop_chat line 858 / next_chat lines 873-876: is the user a key?
T_disconnect(u, op) ==
    /\ CanStart(u)
    /\ runs' = Started(u)
    /\ UNCHANGED engine
    /\ IF u \in Keys
       THEN /\ Goto(u, "dc_read", [IdleLocal EXCEPT !.op = op])
            /\ Step(u, op, <<>>, FALSE)
       ELSE /\ Return(u)
            /\ Step(u, op, IF op = "stop_chat"
                           THEN <<Msg(u, "no_dialog"), Msg(u, "main_buttons")>>
                           ELSE <<Msg(u, "no_dialog")>>, FALSE)

\* stop_chat lines 859-861 / next_chat lines 878-880: partner_id = chat_partners[user_id]
T_dc_read(u) ==
    /\ pc[u] = "dc_read"
    /\ UNCHANGED <<engine, runs>>
    /\ IF u \in Keys
       THEN /\ Goto(u, "dc_del1", [local[u] EXCEPT !.partner = chat_partners[u]])
            /\ Step(u, local[u].op,
                    IF local[u].op = "stop_chat"
                    THEN <<Msg(u, "you_disconnected"),
                           Msg(chat_partners[u], "partner_disconnected")>>
                    ELSE <<Msg(u, "searching_new"),
                           Msg(chat_partners[u], "partner_next")>>, FALSE)
       ELSE \* the subscript raises KeyError
            /\ Return(u)
            /\ Step(u, local[u].op, <<>>, TRUE)

\* stop_chat line 862 / next_chat line 882: del chat_partners[user_id]
T_dc_del1(u) ==
    /\ pc[u] = "dc_del1"
    /\ UNCHANGED <<queue, runs>>
    /\ IF u \in Keys
       THEN /\ chat_partners' = DictDel(chat_partners, u)
            /\ Goto(u, "dc_del2", local[u])
            /\ Step(u, local[u].op, <<>>, FALSE)
       ELSE /\ UNCHANGED chat_partners
            /\ Return(u)
            /\ Step(u, local[u].op, <<>>, TRUE)

\* stop_chat lines 863-865 / next_chat lines 883-888: del chat_partners[partner_id],
\* then the menus, and in next_chat the gender check before begin_search_for_user
T_dc_del2(u) ==
    /\ pc[u] = "dc_del2"
    /\ UNCHANGED <<queue, runs>>
    /\ IF local[u].partner \notin Keys
       THEN /\ UNCHANGED chat_partners
            /\ Return(u)
            /\ Step(u, local[u].op, <<>>, TRUE)
       ELSE /\ chat_partners' = DictDel(chat_partners, local[u].partner)
            /\ IF local[u].op = "stop_chat"
               THEN /\ Return(u)
                    /\ Step(u, "stop_chat", <<Msg(u, "main_buttons"),
                                              Msg(local[u].partner, "main_buttons")>>, FALSE)
               ELSE IF user_data[u].gender = NoGender
               THEN /\ Return(u)
                    /\ Step(u, "next_chat", <<Msg(local[u].partner, "main_buttons"),
                                              Msg(u, "ask_gender")>>, FALSE)
               ELSE /\ Goto(u, "bs_check", [local[u] EXCEPT !.partner = None])
                    /\ Step(u, "next_chat", <<Msg(local[u].partner, "main_buttons")>>, FALSE)

\* the profile callbacks assign user_data[user_id] in one statement; they are
\* the actions of Spec, taken while few profile callbacks have run
CanChangeProfile == profile_ops < MaxConcProfileOps

NextConc ==
    \/ \E u \in Users, s \in BOOLEAN : T_start_search(u, s)
    \/ \E u \in Users : T_bs_check(u)
    \/ \E u \in Users : T_fp_snapshot(u)
    \/ \E u \in Users : T_fp_loop(u)
    \/ \E u \in Users : T_fp_remove(u)
    \/ \E u \in Users : T_cu_1(u)
    \/ \E u \in Users : T_cu_2(u)
    \/ \E u \in Users : T_bs_add(u)
    \/ \E u \in Users : T_stop_search(u)
    \/ \E u \in Users : T_sq_remove(u)
    \/ \E u \in Users, op \in {"stop_chat", "next_chat"} : T_disconnect(u, op)
    \/ \E u \in Users : T_dc_read(u)
    \/ \E u \in Users : T_dc_del1(u)
    \/ \E u \in Users : T_dc_del2(u)
    \/ \E u \in Users, g \in Genders : CanChangeProfile /\ gender_callback(u, g)
    \/ \E u \in Users : CanChangeProfile /\ check_payment_status(u)
    \/ \E u \in Users, data \in SearchGenderData :
            CanChangeProfile /\ search_gender_callback(u, data)

SpecConc == Init /\ [][NextConc]_vars

\* ------------------------------------------- can_users_chat, called alone
AllGenders == {NoGender} \cup Genders

\* every profile load_user_data can put into user_data
Profiles == [gender : AllGenders, premium : BOOLEAN, search_gender : SearchGenders]

\* user_data as load_user_data leaves it when the rows of users 1 and 2 hold
\* any profile
InitPolicy ==
    /\ \E pa, pb \in Profiles :
          user_data = [u \in Users |-> IF u = 1 THEN pa
                                       ELSE IF u = 2 THEN pb
                                       ELSE DefaultProfile]
    /\ chat_partners = EmptyDict
    /\ waiting_users = {}
    /\ sent = <<>>
    /\ raised = FALSE
    /\ last = [op |-> "none", user |-> None, partner |-> None, subscribed |-> TRUE]
    /\ profile_ops = 0
    /\ pc = [u \in Users |-> "idle"]
    /\ local = [u \in Users |-> IdleLocal]
    /\ runs = [u \in Users |-> NoRuns]
    /\ arrival = <<>>
    /\ queued_preference = [u \in Users |-> NotQueued]
    /\ returned = None

\* one call can_users_chat(user_a, user_b)
can_users_chat_call(user_a, user_b) ==
    /\ returned' = can_users_chat(user_a, user_b)
    /\ last' = Ran("can_users_chat", user_a, user_b)
    /\ sent' = <<>>
    /\ raised' = FALSE
    /\ UNCHANGED <<engine, user_data, profile_ops, threads>>

NextPolicy == \E user_a, user_b \in Users : can_users_chat_call(user_a, user_b)

SpecPolicy == InitPolicy /\ [][NextPolicy]_vars

\* ------------------------------------ find_partner_for_user, called alone
\* any queue content, added in any order, over users of any gender
InitScan ==
    /\ \E g \in [Users -> AllGenders] :
          user_data = [u \in Users |-> [DefaultProfile EXCEPT !.gender = g[u]]]
    /\ waiting_users \in SUBSET Users
    /\ arrival \in Orders(waiting_users)
    /\ queued_preference = [u \in Users |-> IF u \in waiting_users
                                          THEN DEFAULT_SEARCH_GENDER ELSE NotQueued]
    /\ chat_partners = EmptyDict
    /\ sent = <<>>
    /\ raised = FALSE
    /\ last = [op |-> "none", user |-> None, partner |-> None, subscribed |-> TRUE]
    /\ profile_ops = 0
    /\ pc = [u \in Users |-> "idle"]
    /\ local = [u \in Users |-> IdleLocal]
    /\ runs = [u \in Users |-> NoRuns]
    /\ returned = None

\* one call find_partner_for_user(user_id), lines 769-778, with the
\* waiting_users.remove(partner_id) of line 776
find_partner_for_user_call(user_id) ==
    \E order \in Orders(waiting_users) :
        LET partner_id == find_partner_for_user(user_id, order)
        IN  /\ returned' = partner_id
            /\ last' = Ran("find_partner_for_user", user_id, partner_id)
            /\ IF partner_id # None
               THEN /\ waiting_users' = waiting_users \ {partner_id}
                    /\ arrival' = Without(arrival, partner_id)
                    /\ queued_preference' = Unqueued(queued_preference, partner_id)
               ELSE UNCHANGED queue
            /\ sent' = <<>>
            /\ raised' = FALSE
            /\ UNCHANGED <<chat_partners, user_data, profile_ops, threads>>

NextScan == \E user_id \in Users : find_partner_for_user_call(user_id)

SpecScan == InitScan /\ [][NextScan]_vars

\* ------------------------- stop_search of a queued user against a search
\* user 1 is in waiting_users, user 2 is idle; both have their gender set,
\* only a premium user has a stored preference, and the two are compatible
InitCancel ==
    /\ \E pa, pb \in Profiles :
          /\ pa.gender # NoGender /\ pb.gender # NoGender
          /\ pa.premium \/ pa.search_gender = DEFAULT_SEARCH_GENDER
          /\ pb.premium \/ pb.search_gender = DEFAULT_SEARCH_GENDER
          /\ user_data = [u \in Users |-> IF u = 1 THEN pa
                                       ELSE IF u = 2 THEN pb
                                       ELSE DefaultProfile]
    /\ can_users_chat(1, 2)
    /\ waiting_users = {1}
    /\ arrival = <<1>>
    /\ queued_preference = [u \in Users |-> IF u = 1 THEN _user_preference(1)
                                           ELSE NotQueued]
    /\ chat_partners = EmptyDict
    /\ sent = <<>>
    /\ raised = FALSE
    /\ last = [op |-> "none", user |-> None, partner |-> None, subscribed |-> TRUE]
    /\ profile_ops = 0
    /\ pc = [u \in Users |-> "idle"]
    /\ local = [u \in Users |-> IdleLocal]
    /\ runs = [u \in Users |-> NoRuns]
    /\ returned = None

\* user 1 presses "stop search" once and user 2 presses "start search" once;
\* their handlers run on two worker threads, statement by statement
NextCancel ==
    \/ runs[1].handlers = 0 /\ T_stop_search(1)
    \/ T_sq_remove(1)
    \/ \E s \in BOOLEAN : runs[2].handlers = 0 /\ T_start_search(2, s)
    \/ T_bs_check(2)
    \/ T_fp_snapshot(2)
    \/ T_fp_loop(2)
    \/ T_fp_remove(2)
    \/ T_cu_1(2)
    \/ T_cu_2(2)
    \/ T_bs_add(2)

SpecCancel == InitCancel /\ [][NextCancel]_vars

\* ===================================================================== claims

\* C1: no user id is at the same time a member of waiting_users and a key
\* of chat_partners.
C1_MutualExclusion == waiting_users \cap Keys = {}

\* C2: for every key u of chat_partners, chat_partners[u] is a key too and
\* maps back to u; the registry never holds a one-directional entry.
C2_Symmetry ==
    \A u \in Keys : chat_partners[u] \in Keys /\ chat_partners[chat_partners[u]] = u

\* the keys of chat_partners at the moment the handler that ran in this step
\* called connect_users (next_chat has deleted two entries by then)
KeysBeforeConnect ==
    IF last'.op = "next_chat" /\ last'.user \in Keys
    THEN Keys \ {last'.user, chat_partners[last'.user]}
    ELSE Keys

\* C3 as stated: after stop_chat or next_chat by a user x that has a registry
\* entry, neither x nor the former chat_partners[x] is a key of chat_partners.
C3_DisconnectLeavesNoKey ==
    [][\A x \in Keys :
          (last'.op \in {"stop_chat", "next_chat"} /\ last'.user = x)
          => /\ x \notin DOMAIN chat_partners'
             /\ chat_partners[x] \notin DOMAIN chat_partners']_vars

\* C3 as amended: stop_chat by a keyed user x leaves neither x nor the former
\* partner a key, and a stop_chat by a user without an entry changes nothing;
\* next_chat by x removes both entries, and when it returns x or the former
\* partner is a key again only as one side of the pair x <-> p that the
\* matching attempt of the same handler formed with a member p of the queue.
C3_DisconnectAmended ==
    [][/\ \A x \in Keys :
            (last'.op = "stop_chat" /\ last'.user = x)
            => /\ x \notin DOMAIN chat_partners'
               /\ chat_partners[x] \notin DOMAIN chat_partners'
       /\ \A x \in Users \ Keys :
            (last'.op = "stop_chat" /\ last'.user = x)
            => /\ UNCHANGED engine
               /\ ~raised'
               /\ sent' = <<Msg(x, "no_dialog"), Msg(x, "main_buttons")>>
       /\ \A x \in Keys :
            (last'.op = "next_chat" /\ last'.user = x)
            => \A y \in {x, chat_partners[x]} :
                 y \in DOMAIN chat_partners'
                 => /\ last'.partner \in waiting_users
                    /\ last'.partner \notin waiting_users'
                    /\ x \in DOMAIN chat_partners'
                    /\ chat_partners'[x] = last'.partner
                    /\ chat_partners'[last'.partner] = x
                    /\ y \in {x, last'.partner}]_vars

\* C3 witness: a user who had a partner has just run /stop, and no entry of
\* the two is left.
C3_Witness ==
    /\ last.op = "stop_chat"
    /\ \E m \in 1..Len(sent) : sent[m].text = "partner_disconnected"
                               /\ sent[m].to \notin Keys
    /\ last.user \notin Keys
    /\ ~raised

\* C4: whenever connect_users(a, b) is executed, neither a nor b is a key of
\* chat_partners immediately before the two entries are inserted.
C4_ConnectPrecondition ==
    [][last'.partner # None
       => /\ last'.user \notin KeysBeforeConnect
          /\ last'.partner \notin KeysBeforeConnect]_vars

\* C5: the pairing relation is one-to-one: no user is the chat_partners value
\* of two distinct keys.
C5_OneToOne ==
    \A u, v \in Keys : chat_partners[u] = chat_partners[v] => u = v

\* C8: every handler runs to completion; none raises.
C8_NoException == ~raised

\* C9: every member of waiting_users and every key of chat_partners has its
\* gender set; start_search by a user whose gender is unset neither queues nor
\* pairs that user; the candidate scan never selects a user whose gender is
\* unset.
C9_UnsetGenderNeverMatched ==
    /\ [](\A u \in waiting_users \cup Keys : user_data[u].gender # NoGender)
    /\ [][/\ (last'.op = "start_search" /\ user_data[last'.user].gender = NoGender)
             => /\ last'.user \notin waiting_users'
                /\ last'.user \notin DOMAIN chat_partners'
                /\ \A k \in DOMAIN chat_partners' : chat_partners'[k] # last'.user
          /\ last'.partner # None => user_data[last'.partner].gender # NoGender]_vars

\* C9 witness: a user without gender has pressed "start search" (passing the
\* subscription gate) while another user was waiting, and was turned away.
C9_Witness ==
    /\ last.op = "start_search"
    /\ last.subscribed
    /\ user_data[last.user].gender = NoGender
    /\ waiting_users # {}
    /\ last.user \notin waiting_users \cup Keys

\* C10 as stated: start_search by a user whose gender is unset leaves
\* waiting_users and chat_partners as they were and sends that user the
\* gender prompt.
C10_ProfileIncomplete ==
    [][(last'.op = "start_search" /\ user_data[last'.user].gender = NoGender)
       => /\ UNCHANGED engine
          /\ \E m \in 1..Len(sent') : sent'[m] = Msg(last'.user, "ask_gender")]_vars

\* C10 as amended: start_search by a user whose gender is unset leaves
\* waiting_users and chat_partners as they were; if the user passes the
\* subscription check the only message sent is the gender prompt to that
\* user, otherwise the only message is the subscription prompt.
C10_ProfileIncompleteAmended ==
    [][(last'.op = "start_search" /\ user_data[last'.user].gender = NoGender)
       => /\ UNCHANGED engine
          /\ ~raised'
          /\ sent' = IF last'.subscribed
                     THEN <<Msg(last'.user, "ask_gender")>>
                     ELSE <<Msg(last'.user, "subscribe")>>]_vars

\* C10 witness: a user without gender was sent the gender prompt by
\* start_search while two other users were paired.
C10_Witness ==
    /\ last.op = "start_search"
    /\ user_data[last.user].gender = NoGender
    /\ sent = <<Msg(last.user, "ask_gender")>>
    /\ Keys # {}
    /\ C2_Symmetry

\* both handlers of the race have returned: a and b have each run one
\* start_search that entered begin_search_for_user, nobody ran anything else
RaceOver(a, b) ==
    /\ a # b
    /\ Active = {}
    /\ runs[a] = [handlers |-> 1, searches |-> 1]
    /\ runs[b] = [handlers |-> 1, searches |-> 1]
    /\ \A c \in Users \ {a, b} : runs[c] = NoRuns
    /\ ~user_data[a].premium
    /\ ~user_data[b].premium

\* C6: when two compatible users (gender set, neither premium) both run
\* begin_search on an initially empty queue with their handlers interleaved,
\* every terminal state has the two paired with each other, neither in
\* waiting_users, and mutual exclusion and symmetry hold.
C6_ConcurrentBeginSearch ==
    \A a, b \in Users :
        RaceOver(a, b)
        => /\ Keys = {a, b}
           /\ chat_partners[a] = b
           /\ chat_partners[b] = a
           /\ waiting_users = {}

\* positions between the scan of find_partner_for_user and the second
\* insertion of connect_users
MatchingAttempt == {"fp_loop", "fp_remove", "cu_1", "cu_2"}

\* C7: the sequence find candidate -> remove candidate -> insert both registry
\* entries runs with no step of another handler on the queue or the registry
\* in between; two searchers are never both connecting to the same candidate,
\* and a candidate handed out is neither paired nor still queued.
C7_AtomicMatchingAttempt ==
    /\ [][\A u \in Users :
            (pc[u] \in MatchingAttempt /\ pc'[u] = pc[u] /\ local'[u] = local[u])
            => UNCHANGED engine]_vars
    /\ [](\A u, v \in Users :
            (u # v /\ pc[u] \in {"cu_1", "cu_2"} /\ pc[v] \in {"cu_1", "cu_2"})
            => local[u].partner # local[v].partner)
    /\ [](\A u \in Users :
            pc[u] = "cu_1" => local[u].partner \notin Keys \cup waiting_users)

\* the effective preference of the profile p
effective_preference(p) ==
    IF p.premium THEN p.search_gender ELSE DEFAULT_SEARCH_GENDER

\* the reference compatibility of the profiles pa and pb
can_match(pa, pb) ==
    /\ pa.gender # NoGender
    /\ pb.gender # NoGender
    /\ ~(effective_preference(pa) # DEFAULT_SEARCH_GENDER
          /\ effective_preference(pa) # pb.gender)
    /\ ~(effective_preference(pb) # DEFAULT_SEARCH_GENDER
          /\ effective_preference(pb) # pa.gender)

\* C11: for every pair of profiles, can_users_chat(a, b) is false if either
\* gender is unset, false if the effective preference of one side is not Any
\* and differs from the other side's gender, and true otherwise, where the
\* effective preference is the stored preference for a premium user and Any
\* for everyone else.
C11_CompatibilityPolicy ==
    last.op = "can_users_chat"
    => returned = can_match(user_data[last.user], user_data[last.partner])

\* C11 witness: a call refused only because the premium caller's preference
\* differs from the other user's gender.
C11_Witness ==
    /\ last.op = "can_users_chat"
    /\ returned = FALSE
    /\ user_data[last.user].premium
    /\ user_data[last.user].search_gender = Girl
    /\ user_data[last.partner].gender = Boy
    /\ user_data[last.user].gender = Boy
    /\ ~user_data[last.partner].premium

\* C12: can_users_chat(a, b) = can_users_chat(b, a) for every pair of users.
C12_CompatibilitySymmetric ==
    last.op = "can_users_chat"
    => /\ returned = can_users_chat(last.partner, last.user)
       /\ \A a, b \in Users : can_users_chat(a, b) = can_users_chat(b, a)

\* C12 witness: a call answered FALSE because of the preference of the second
\* argument alone (the first argument has no effective preference).
C12_Witness ==
    /\ last.op = "can_users_chat"
    /\ last.user # last.partner
    /\ returned = FALSE
    /\ effective_preference(user_data[last.user]) = DEFAULT_SEARCH_GENDER
    /\ user_data[last.user].gender = Boy
    /\ user_data[last.partner].gender = Girl
    /\ user_data[last.partner].premium
    /\ user_data[last.partner].search_gender = Girl

\* C13: for two users with gender set of whom neither is premium,
\* can_users_chat is true whatever search_gender is stored for them.
C13_NonPremiumPreferenceIgnored ==
    (/\ last.op = "can_users_chat"
     /\ user_data[last.user].gender # NoGender
     /\ user_data[last.partner].gender # NoGender
     /\ ~user_data[last.user].premium
     /\ ~user_data[last.partner].premium)
    => returned = TRUE

\* C13 witness: two non-premium boys, both with "Girl" stored as
\* search_gender, were found compatible.
C13_Witness ==
    /\ last.op = "can_users_chat"
    /\ last.user # last.partner
    /\ returned = TRUE
    /\ \A u \in {last.user, last.partner} :
          /\ user_data[u].gender = Boy
          /\ ~user_data[u].premium
          /\ user_data[u].search_gender = Girl

\* C14: find_partner_for_user(x) never returns x, and returns None on an empty
\* queue and on a queue whose only member is x.
C14_NoSelfMatch ==
    /\ [](last.op = "find_partner_for_user" => returned # last.user)
    /\ [][\A x \in Users :
            (last'.op = "find_partner_for_user" /\ last'.user = x
             /\ waiting_users \subseteq {x})
            => returned' = None]_vars

\* C14 witness: a user with gender set, the only member of the queue, has
\* called the scan and got None.
C14_Witness ==
    /\ last.op = "find_partner_for_user"
    /\ waiting_users = {last.user}
    /\ user_data[last.user].gender # NoGender
    /\ returned = None

\* the handler that ran in this step entered begin_search_for_user for r
SearchEntered(r) ==
    /\ last'.user = r
    /\ ~raised'
    /\ user_data[r].gender # NoGender
    /\ \/ last'.op = "start_search" /\ last'.subscribed
       \/ last'.op = "next_chat" /\ r \in Keys

\* C15: when begin_search by r finds a compatible candidate p, then afterwards
\* p is not in waiting_users, r was never added to waiting_users, and
\* chat_partners maps r to p and p to r.
C15_PairingCommit ==
    [][\A r \in Users :
         (SearchEntered(r) /\ last'.partner # None)
         => LET p == last'.partner
            IN  /\ p \in waiting_users
                /\ can_users_chat(r, p)
                /\ waiting_users' = waiting_users \ {p}
                /\ r \notin waiting_users'
                /\ {r, p} \subseteq DOMAIN chat_partners'
                /\ chat_partners'[r] = p
                /\ chat_partners'[p] = r]_vars

\* C15 witness: a start_search has just paired the requester with the only
\* waiting user.
C15_Witness ==
    /\ last.op = "start_search"
    /\ last.partner # None
    /\ Keys = {last.user, last.partner}
    /\ chat_partners[last.user] = last.partner
    /\ chat_partners[last.partner] = last.user
    /\ waiting_users = {}

\* C16: begin_search by a requester r (gender set, not already queued) ends
\* with r in waiting_users if and only if no other member of waiting_users is
\* compatible with r; in that case no queue member is removed and no registry
\* entry is created.
C16_MissMeansQueue ==
    [][\A r \in Users \ waiting_users :
         SearchEntered(r)
         => /\ (r \in waiting_users')
               <=> ~(\E p \in waiting_users \ {r} : can_users_chat(r, p))
            /\ (r \in waiting_users')
               => /\ waiting_users' = waiting_users \cup {r}
                  /\ \A k \in DOMAIN chat_partners' :
                        k \in Keys /\ chat_partners'[k] = chat_partners[k]]_vars

\* C16 witness: premium D (a boy seeking girls) waits, the boy E has just
\* searched, and both are in the queue.
C16_Witness ==
    \E D, E \in waiting_users :
        /\ D # E
        /\ user_data[D] = [gender |-> Boy, premium |-> TRUE, search_gender |-> Girl]
        /\ user_data[E].gender = Boy
        /\ ~user_data[E].premium
        /\ last = Ran("start_search", E, None)
        /\ Keys = {}

\* C17: a call of find_partner_for_user leaves waiting_users unchanged,
\* whether or not it finds a candidate.
C17_ScanReadOnly ==
    [][last'.op = "find_partner_for_user" => waiting_users' = waiting_users]_vars

\* C18: when several members of the queue are compatible with the requester,
\* the scan returns the one among them that was added to the queue earliest.
C18_InsertionOrderScan ==
    [][\A r \in Users :
         (last'.op = "find_partner_for_user" /\ last'.user = r
          /\ returned' # None)
         => returned' = ScanQueue(r, arrival)]_vars

\* C19: begin_search by a user who is already in waiting_users leaves
\* waiting_users and chat_partners as they are at its entry (no scan, no
\* pairing, no second entry) and only sends that user the status notification.
C19_AlreadySearchingNoOp ==
    [][\A u \in waiting_users :
         SearchEntered(u)
         => /\ UNCHANGED queue
            /\ last'.partner = None
            /\ sent'[Len(sent')] = Msg(u, "already_in_queue")
            /\ last'.op = "start_search"
               => /\ UNCHANGED chat_partners
                  /\ Len(sent') = 1
            /\ last'.op = "next_chat"
               => /\ chat_partners' =
                       DictDel(DictDel(chat_partners, u), chat_partners[u])
                  /\ \A m \in 1..Len(sent') :
                        sent'[m].text \in {"searching_new", "partner_next",
                                           "main_buttons", "already_in_queue"}]_vars

\* C19 witness: a queued user pressed "start search" again and got only the
\* status notification.
C19_Witness ==
    /\ last.op = "start_search"
    /\ last.user \in waiting_users
    /\ sent = <<Msg(last.user, "already_in_queue")>>
    /\ Keys = {}

\* C20: a user id occurs at most once in the waiting queue (every member is
\* there by exactly one add), and a search by a user who is already present
\* leaves the queue unchanged.
C20_QueueSetSemantics ==
    /\ [](/\ Range(arrival) = waiting_users
          /\ Len(arrival) = Cardinality(waiting_users))
    /\ [][\A u \in waiting_users :
            (last'.user = u /\ last'.op \in {"start_search", "next_chat"})
            => UNCHANGED queue]_vars

\* C20 witness: two users wait, and one of them has searched again.
C20_Witness ==
    /\ Cardinality(waiting_users) = 2
    /\ Len(arrival) = 2
    /\ last.op = "start_search"
    /\ last.user \in waiting_users
    /\ sent = <<Msg(last.user, "already_in_queue")>>

\* C21: stop_search by a user in waiting_users removes exactly that user, who
\* is Idle afterwards (neither queued nor a key); by a user not in the queue it
\* changes nothing; it never raises, and every other member stays queued.
C21_Cancel ==
    [][\A u \in Users :
         (last'.op = "stop_search" /\ last'.user = u)
         => /\ ~raised'
            /\ waiting_users' = waiting_users \ {u}
            /\ UNCHANGED chat_partners
            /\ u \in waiting_users => u \notin DOMAIN chat_partners']_vars

\* C22: /stop by a user x that has an entry makes x and chat_partners[x] Idle:
\* afterwards neither is a key of chat_partners and neither is in
\* waiting_users.
C22_StopMakesBothIdle ==
    [][\A x \in Keys :
         (last'.op = "stop_chat" /\ last'.user = x)
         => /\ ~raised'
            /\ {x, chat_partners[x]} \cap DOMAIN chat_partners' = {}
            /\ {x, chat_partners[x]} \cap waiting_users' = {}]_vars

\* C23: /next by a user F with partner G removes both entries, leaves G Idle
\* (not queued, not paired by this handler) and runs the matching attempt for
\* F, so that F ends paired with a compatible member of the queue or queued.
C23_Next ==
    [][\A F \in Keys :
         (last'.op = "next_chat" /\ last'.user = F)
         => LET G == chat_partners[F]
            IN  /\ ~raised'
                /\ G \notin DOMAIN chat_partners'
                /\ G \notin waiting_users'
                /\ \/ /\ F \in waiting_users'
                      /\ F \notin DOMAIN chat_partners'
                   \/ /\ F \in DOMAIN chat_partners'
                      /\ F \notin waiting_users'
                      /\ chat_partners'[F] = last'.partner
                      /\ last'.partner \in waiting_users
                      /\ can_users_chat(F, last'.partner)]_vars

\* C24: /stop or /next by a user without an entry in chat_partners leaves
\* waiting_users and chat_partners unchanged, raises nothing and sends that
\* user the "no active chat" notification.
C24_NotPairedNoOp ==
    [][\A u \in Users \ Keys :
         (last'.op \in {"stop_chat", "next_chat"} /\ last'.user = u)
         => /\ UNCHANGED engine
            /\ ~raised'
            /\ Len(sent') >= 1
            /\ sent'[1] = Msg(u, "no_dialog")
            /\ \A m \in 1..Len(sent') :
                  sent'[m] \in {Msg(u, "no_dialog"), Msg(u, "main_buttons")}]_vars

\* C24 witness: a user with gender set and no partner sent /next while
\* another user was waiting, and only got the notification.
C24_Witness ==
    /\ last.op = "next_chat"
    /\ last.user \notin Keys \cup waiting_users
    /\ user_data[last.user].gender # NoGender
    /\ waiting_users # {}
    /\ sent = <<Msg(last.user, "no_dialog")>>

\* the number of messages the handler of this step sent to v
SentTo(v) == Cardinality({m \in 1..Len(sent') : sent'[m].to = v})

\* the handler of this step is an engine transition of user u
Transition(u) ==
    /\ last'.user = u
    /\ \/ last'.op \in {"stop_search", "stop_chat", "next_chat"}
       \/ SearchEntered(u)

\* the users other than u that the transition of this step pairs with u or
\* disconnects from u
Affected(u) ==
    (IF last'.partner # None THEN {last'.partner} ELSE {})
    \cup (IF last'.op \in {"stop_chat", "next_chat"} /\ u \in Keys
          THEN {chat_partners[u]} ELSE {})

\* C25 as stated: every engine transition sends exactly one message to the
\* acting user, and pairing and disconnection exactly one more to the affected
\* partner.
C25_ExactlyOneNotification ==
    [][\A u \in Users :
         Transition(u)
         => /\ SentTo(u) = 1
            /\ \A v \in Affected(u) \ {u} : SentTo(v) = 1]_vars

\* C25 as amended: every engine transition sends at least one message to the
\* acting user, pairing and disconnection send at least one message to the
\* affected partner, and nobody else is sent anything.
C25_NotificationAmended ==
    [][\A u \in Users :
         Transition(u)
         => /\ SentTo(u) >= 1
            /\ \A v \in Affected(u) : SentTo(v) >= 1
            /\ \A v \in Users \ (Affected(u) \cup {u}) : SentTo(v) = 0]_vars

\* C25 witness: a queued user has cancelled and was sent the notification
\* and the menu, two messages.
C25_Witness ==
    /\ last.op = "stop_search"
    /\ sent = <<Msg(last.user, "search_stopped"), Msg(last.user, "main_buttons")>>
    /\ last.user \notin waiting_users

\* C26: when a search by B pairs B with the queued user A, A is sent the
\* partner-found notification in B's handler; when a user with an entry sends
\* /stop or /next, the former partner is sent the disconnect notification in
\* that handler.
C26_PartnerIsTold ==
    [][\A u \in Users :
         /\ (SearchEntered(u) /\ last'.partner # None)
            => \E m \in 1..Len(sent') : sent'[m] = Msg(last'.partner, "partner_found")
         /\ (last'.op = "stop_chat" /\ last'.user = u /\ u \in Keys)
            => \E m \in 1..Len(sent') :
                 sent'[m] = Msg(chat_partners[u], "partner_disconnected")
         /\ (last'.op = "next_chat" /\ last'.user = u /\ u \in Keys)
            => \E m \in 1..Len(sent') :
                 sent'[m] = Msg(chat_partners[u], "partner_next")]_vars

\* C26 witness: a start_search has paired the requester with a waiting user,
\* who was sent "partner found".
C26_Witness ==
    /\ last.op = "start_search"
    /\ last.partner # None
    /\ last.partner # last.user
    /\ \E m \in 1..Len(sent) : sent[m] = Msg(last.partner, "partner_found")
    /\ \E m \in 1..Len(sent) : sent[m] = Msg(last.user, "partner_found")

\* C27: a message of u that is not a control command is copied to v if and
\* only if chat_partners[u] = v when it is handled; and once one of two
\* partners has sent /stop or /next, neither has the other as chat_partners
\* value (so nothing is relayed between them) unless that handler paired them
\* again.
C27_RelayFollowsSession ==
    /\ [][\A u \in Users :
            (last'.op = "forward_message" /\ last'.user = u)
            => \A v \in Users :
                 (\E m \in 1..Len(sent') : sent'[m] = Msg(v, "copy"))
                 <=> (u \in Keys /\ chat_partners[u] = v)]_vars
    /\ [][\A x \in Keys :
            (last'.op \in {"stop_chat", "next_chat"} /\ last'.user = x)
            => \A y \in Users :
                 (chat_partners[x] = y \/ (y \in Keys /\ chat_partners[y] = x))
                 => \/ last'.partner = y
                    \/ /\ ~(x \in DOMAIN chat_partners' /\ chat_partners'[x] = y)
                       /\ ~(y \in DOMAIN chat_partners' /\ chat_partners'[y] = x)]_vars

\* C28: a member of waiting_users leaves it only by its own stop_search, by
\* being chosen as the candidate of another user's search, or by a restart.
C28_QueueMembershipPersists ==
    [][\A u \in waiting_users :
         u \notin waiting_users'
         => \/ last'.op = "stop_search" /\ last'.user = u
            \/ last'.op \in {"start_search", "next_chat"} /\ last'.partner = u
            \/ last'.op = "restart"]_vars

\* C28 witness: a queued user has sent /start and is still queued.
C28_Witness ==
    /\ last.op = "start"
    /\ last.subscribed
    /\ last.user \in waiting_users

\* C29: after a restart waiting_users and chat_partners are empty, and the
\* stored profiles are loaded unchanged.
C29_RestartClearsVolatileState ==
    [][last'.op = "restart"
       => /\ waiting_users' = {}
          /\ chat_partners' = EmptyDict
          /\ user_data' = user_data]_vars

\* C29 witness: the process has just restarted with a premium profile (a boy
\* seeking girls) in the store.
C29_Witness ==
    /\ last.op = "restart"
    /\ waiting_users = {}
    /\ Keys = {}
    /\ \E u \in Users :
          user_data[u] = [gender |-> Boy, premium |-> TRUE, search_gender |-> Girl]

\* the preference a search-preference button asks for
RequestedPreference(data) ==
    IF data = "search_gender_male" THEN Boy
    ELSE IF data = "search_gender_female" THEN Girl
    ELSE DEFAULT_SEARCH_GENDER

\* C30: a search-preference callback of a non-premium user leaves the stored
\* profiles unchanged; that of a premium user sets that user's search_gender
\* to the requested value and changes nothing else.
C30_PreferencePremiumOnly ==
    [][\A u \in Users :
         (last'.op \in SearchGenderData /\ last'.user = u)
         => IF user_data[u].premium
            THEN user_data' = [user_data EXCEPT
                                 ![u].search_gender = RequestedPreference(last'.op)]
            ELSE user_data' = user_data]_vars

\* C30 witness: a premium user has "Girl" stored as preference, and the
\* request of a non-premium user has just been turned down.
C30_Witness ==
    /\ last.op = "search_gender_male"
    /\ ~user_data[last.user].premium
    /\ user_data[last.user].search_gender = DEFAULT_SEARCH_GENDER
    /\ sent = <<>>
    /\ \E u \in Users : user_data[u].premium /\ user_data[u].search_gender = Girl

\* C31: whenever forward_message copies a message of u to v, v's partner is u
\* (chat_partners[v] = u): a user receives relayed messages only from the
\* user they are currently paired with.
C31_RelayConfidentiality ==
    [][\A u, v \in Users :
         (/\ last'.op = "forward_message"
          /\ last'.user = u
          /\ \E m \in 1..Len(sent') : sent'[m] = Msg(v, "copy"))
         => (v \in Keys /\ chat_partners[v] = u)]_vars

\* no two distinct members of the queue q are compatible under can_users_chat
NoMissedMatch(q) ==
    \A a, b \in q : a # b => ~can_users_chat(a, b)

\* C32: with handlers run one at a time, as long as no step changes the
\* profile of a user who is in waiting_users, no two distinct members of
\* waiting_users are compatible with each other: a step that leaves the
\* profiles of the queued users alone never produces a queue holding two
\* compatible members out of a queue that holds none.
C32_NoMissedMatch ==
    [][(/\ NoMissedMatch(waiting_users)
        /\ \A u \in waiting_users : user_data'[u] = user_data[u])
       => NoMissedMatch(waiting_users)']_vars

\* C32 witness: a search has just queued its user next to another waiting
\* user with whom it is not compatible.
C32_Witness ==
    /\ last.op = "start_search"
    /\ last.partner = None
    /\ last.user \in waiting_users
    /\ \E c \in waiting_users \ {last.user} :
          /\ user_data[c].gender # NoGender
          /\ ~can_users_chat(last.user, c)
    /\ NoMissedMatch(waiting_users)

\* the step has connected a to a partner: a's registry entry is new or names
\* another user than before
Connected(a) ==
    /\ a \in DOMAIN chat_partners'
    /\ a \in Keys => chat_partners'[a] # chat_partners[a]

\* C33: every time two users a and b are connected, can_users_chat(a, b)
\* holds for their profiles at that moment; a premium user with a preference
\* other than Any is connected only to a partner of the preferred gender,
\* as requester and as queued candidate alike.
C33_PairsCompatibleWhenFormed ==
    [][\A a \in Users :
         Connected(a)
         => LET b == chat_partners'[a]
            IN  /\ can_users_chat(a, b)
                /\ can_users_chat(b, a)
                /\ (user_data[a].premium
                    /\ user_data[a].search_gender # DEFAULT_SEARCH_GENDER)
                   => user_data[b].gender = user_data[a].search_gender
                /\ user_data' = user_data]_vars

\* C33 witness: a search has just connected its user to a queued premium
\* candidate who asks for the requester's gender.
C33_Witness ==
    /\ last.op = "start_search"
    /\ last.partner # None
    /\ last.user \in Keys
    /\ chat_partners[last.user] = last.partner
    /\ user_data[last.partner].premium
    /\ user_data[last.partner].search_gender # DEFAULT_SEARCH_GENDER
    /\ user_data[last.user].gender = user_data[last.partner].search_gender

\* c is in waiting_users and its preference is no longer the one it had when
\* it was added
ChangedWhileQueued(c) ==
    /\ c \in waiting_users
    /\ queued_preference[c] # _user_preference(c)

\* C34: a preference change or premium purchase of a user who is in
\* waiting_users leaves waiting_users and chat_partners as they are; and every
\* later scan by another user decides about a queued user whose preference
\* changed while queued by the profiles as they are at the scan: it picks the
\* user only if the two are compatible now, and queues the requester only if
\* they are not.
C34_ScanUsesCurrentProfiles ==
    /\ [][\A u \in waiting_users :
            (last'.user = u
             /\ last'.op \in SearchGenderData \cup {"check_payment_status"})
            => UNCHANGED <<chat_partners, waiting_users>>]_vars
    /\ [][\A r \in Users :
            (SearchEntered(r) /\ r \notin waiting_users)
            => \A c \in waiting_users \ {r} :
                 ChangedWhileQueued(c)
                 => /\ last'.partner = c
                       => can_match(user_data[r], user_data[c])
                    /\ last'.partner = None
                       => ~can_match(user_data[r], user_data[c])]_vars

\* C34 witness: a search has just queued its user although a waiting premium
\* user accepted everyone when that user was queued: the waiting user has
\* changed the preference since, and the scan went by the new one.
C34_Witness ==
    /\ last.op = "start_search"
    /\ last.subscribed
    /\ last.partner = None
    /\ last.user \in waiting_users
    /\ ~user_data[last.user].premium
    /\ \E c \in waiting_users \ {last.user} :
          /\ ChangedWhileQueued(c)
          /\ queued_preference[c] = DEFAULT_SEARCH_GENDER
          /\ user_data[c].premium
          /\ user_data[c].search_gender # user_data[last.user].gender

\* C35: no key of chat_partners is mapped to itself.
C35_NoSelfPairing == \A u \in Keys : chat_partners[u] # u

\* C35 witness: a search has just connected two users, and each has the
\* other as registry entry.
C35_Witness ==
    /\ last.op \in {"start_search", "next_chat"}
    /\ last.partner # None
    /\ {last.user, last.partner} \subseteq Keys
    /\ chat_partners[last.user] = last.partner
    /\ chat_partners[last.partner] = last.user
    /\ last.partner # last.user

\* the registry entries of everyone outside S are the same before and after
\* the step
EntriesKept(S) ==
    \A x \in Users \ S :
        /\ x \in DOMAIN chat_partners' <=> x \in Keys
        /\ x \in Keys => chat_partners'[x] = chat_partners[x]

\* u's partner before the step and after it, as far as u has one
PartnersOf(u) ==
    (IF u \in Keys THEN {chat_partners[u]} ELSE {})
    \cup (IF u \in DOMAIN chat_partners' THEN {chat_partners'[u]} ELSE {})

\* C36: stop_search leaves chat_partners unchanged; stop_chat leaves
\* waiting_users unchanged; stop_chat and next_chat by u change no registry
\* entry other than those of u and u's partner (the one u leaves and, for
\* next_chat, the one u is connected to); /start and the profile callbacks
\* leave waiting_users and chat_partners unchanged.
C36_Frame ==
    [][/\ last'.op = "stop_search" => chat_partners' = chat_partners
       /\ last'.op = "stop_chat" => waiting_users' = waiting_users
       /\ \A u \in Users :
            (last'.op \in {"stop_chat", "next_chat"} /\ last'.user = u)
            => EntriesKept({u} \cup PartnersOf(u))
       /\ last'.op \in {"start", "gender_callback", "check_payment_status"}
                       \cup SearchGenderData
          => /\ waiting_users' = waiting_users
             /\ chat_partners' = chat_partners]_vars

\* C36 witness: a paired user has just sent /stop while a third user holds a
\* registry entry and somebody is waiting; the entry and the queue are still
\* there.
C36_Witness ==
    /\ last.op = "stop_chat"
    /\ ~raised
    /\ \E m \in 1..Len(sent) : sent[m] = Msg(last.user, "you_disconnected")
    /\ last.user \notin Keys
    /\ Keys # {}
    /\ waiting_users # {}

\* positions inside the disconnect of stop_chat and next_chat
Disconnecting == {"dc_read", "dc_del1", "dc_del2"}

\* a and b are the only users who have sent anything, two messages each
SessionOfTwo(a, b) ==
    /\ a # b
    /\ \A c \in Users \ {a, b} : runs[c] = NoRuns
    /\ runs[a].handlers = 2
    /\ runs[b].handlers = 2

\* C37: when the two partners of one session both send /stop (or one /stop
\* and the other /next) and their handlers are interleaved statement by
\* statement, no statement of either disconnect raises, and when both
\* handlers have returned the registry holds neither of the two entries
\* (at least one of the two has searched only once: the session was formed
\* once, and one of the two ended it with /stop).
C37_ConcurrentDisconnect ==
    /\ [][\A a, b \in Users :
            (/\ SessionOfTwo(a, b)
             /\ pc[a] \in Disconnecting
             /\ last'.user = a
             /\ last'.op \in {"stop_chat", "next_chat"})
            => ~raised']_vars
    /\ [](\A a, b \in Users :
            (/\ SessionOfTwo(a, b)
             /\ Active = {}
             /\ last.user = a
             /\ last.op \in {"stop_chat", "next_chat"}
             /\ runs[a].searches <= 1 \/ runs[b].searches <= 1)
            => /\ ~(a \in Keys /\ chat_partners[a] = b)
               /\ ~(b \in Keys /\ chat_partners[b] = a))

\* both handlers of the race have returned: user 1 has run its stop_search
\* and user 2 a start_search that entered begin_search_for_user
CancelRaceOver ==
    /\ Active = {}
    /\ runs[1].handlers = 1
    /\ runs[2] = [handlers |-> 1, searches |-> 1]

\* C38: when queued user u (1) sends "stop search" while a compatible user v
\* (2) runs begin_search, interleaved statement by statement and with nobody
\* else present, no handler raises, and every terminal state is either u idle
\* and v in waiting_users, or u and v paired with each other; v is never left
\* neither queued nor paired.
C38_ConcurrentCancelVersusMatch ==
    /\ [](~raised)
    /\ [](CancelRaceOver
          => \/ /\ waiting_users = {2}
                /\ Keys = {}
             \/ /\ waiting_users = {}
                /\ Keys = {1, 2}
                /\ chat_partners[1] = 2
                /\ chat_partners[2] = 1)

\* the two-user sessions: pairs of distinct users who have each other as
\* registry entry
Sessions ==
    {{x, chat_partners[x]} : x \in {y \in Keys : /\ chat_partners[y] \in Keys
                                                 /\ chat_partners[y] # y
                                                 /\ chat_partners[chat_partners[y]] = y}}

\* C39: the number of chat_partners entries is even, and active_pairs, the
\* value the statistics report, is the number of two-user sessions.
C39_PairCount ==
    /\ Cardinality(Keys) % 2 = 0
    /\ active_pairs = Cardinality(Sessions)

====
